---- MODULE Spec2Model ----
(***************************************************************************)
(* Model of intake.py: configuration loading, the Document AI call, the    *)
(* text-anchor resolver _get_text and the page/field walk of               *)
(* extract_form_data_to_csv that builds the CSV table.                     *)
(*                                                                         *)
(* Strings that the program slices character by character (the document    *)
(* text, resolved field names and values) are sequences of one-character   *)
(* strings.  Confidence scores are hundredths (0..100).                    *)
(*                                                                         *)
(* Two specifications:                                                     *)
(*   Spec         one run of the __main__ pipeline;                        *)
(*   SpecResolve  one call of _get_text on an anchor and a text drawn      *)
(*                from bounded sets.                                       *)
(***************************************************************************)
EXTENDS Integers, Sequences, FiniteSets

VARIABLES
    pc,            \* position of the __main__ script
    config_file,   \* what config.json holds on disk
    config,        \* the mapping load_config returned (its set of keys)
    document,      \* the Document process_document returned
    remote_calls,  \* number of client.process_document requests issued
    fault,         \* why the run ended in exit(1) / an uncaught exception
    csv_data,      \* the table being built by extract_form_data_to_csv
    page_num,      \* enumerate index of the page loop
    field_idx,     \* index of the field loop within the page
    records,       \* history: (page, name, value) records in production order
    csv_twin,      \* table built by the same code from a confidence twin
    csv_file,      \* rows handed to csv.writer.writerows
    r_pc,          \* SpecResolve: position of the _get_text call
    r_text,        \* SpecResolve: argument text
    r_anchor,      \* SpecResolve: argument text_anchor.text_segments
    r_response,    \* SpecResolve: response when the loop ends
    r_result       \* SpecResolve: returned string

vars == <<pc, config_file, config, document, remote_calls, fault, csv_data,
          page_num, field_idx, records, csv_twin, csv_file,
          r_pc, r_text, r_anchor, r_response, r_result>>

pipeVars == <<pc, config_file, config, document, remote_calls, fault, csv_data,
              page_num, field_idx, records, csv_twin, csv_file>>

resolveVars == <<r_pc, r_text, r_anchor, r_response, r_result>>

----------------------------------------------------------------------------
(* Bounds *)

MaxPages == 2
MaxFields == 3
MaxSegs == 2
MaxIdx == 4

\* a table that does not exist yet / a file that was not written: a table
\* always holds its header row, so the empty sequence is no table
NoTable == <<>>
NoDocument == [text |-> <<>>, pages |-> <<>>]
NoConfig == {}

SeqsUpTo(S, n) == UNION {[1..k -> S] : k \in 0..n}

Max(a, b) == IF a > b THEN a ELSE b
Min(a, b) == IF a < b THEN a ELSE b

----------------------------------------------------------------------------
(* _get_text *)

\* text[start:end] of a Python str, for any integers start and end
PySlice(text, start, end) ==
    LET n == Len(text)
        s == IF start < 0 THEN Max(start + n, 0) ELSE Min(start, n)
        e == IF end < 0 THEN Max(end + n, 0) ELSE Min(end, n)
    IN  SubSeq(text, s + 1, e)

\* characters str.strip() removes
Whitespace == {" ", "\t", "\n", "\r", "\f"}

RECURSIVE LStrip(_)
LStrip(s) ==
    IF s # <<>> /\ Head(s) \in Whitespace THEN LStrip(Tail(s)) ELSE s

RECURSIVE RStrip(_)
RStrip(s) ==
    IF s # <<>> /\ s[Len(s)] \in Whitespace
    THEN RStrip(SubSeq(s, 1, Len(s) - 1))
    ELSE s

Strip(s) == RStrip(LStrip(s))

\* variant: the replace is left out
ReplaceNewlineNone(c) == c

\* what .replace("\n", " ") does to one character
ReplaceNewline(c) == IF c = "\n" THEN " " ELSE c

Replace(s) == [i \in 1..Len(s) |-> ReplaceNewline(s[i])]

\* variant: the pieces are joined with a space between them
JoinSpace(response, piece) ==
    IF response = <<>> THEN piece ELSE response \o <<" ">> \o piece

\* response += text[start_index:end_index]
Join(response, piece) == response \o piece

\* variant: the segments are visited by ascending start index
RECURSIVE InsertByStart(_, _)
InsertByStart(seg, sorted) ==
    IF sorted = <<>> \/ seg[1] < Head(sorted)[1] THEN <<seg>> \o sorted
    ELSE <<Head(sorted)>> \o InsertByStart(seg, Tail(sorted))

RECURSIVE SegmentOrderSorted(_)
SegmentOrderSorted(segments) ==
    IF segments = <<>> THEN <<>>
    ELSE InsertByStart(segments[Len(segments)],
                       SegmentOrderSorted(SubSeq(segments, 1, Len(segments) - 1)))

\* the order in which the for loop visits text_anchor.text_segments
SegmentOrder(segments) == segments

RECURSIVE ConcatFrom(_, _, _, _)
ConcatFrom(segments, text, i, response) ==
    IF i > Len(segments) THEN response
    ELSE ConcatFrom(segments, text, i + 1,
                    Join(response, PySlice(text, segments[i][1], segments[i][2])))

\* the value of response when the loop of _get_text ends
Concat(segments, text) == ConcatFrom(SegmentOrder(segments), text, 1, <<>>)

\* variant: an anchor without segments stands for the whole text
get_text_whole(segments, text) ==
    IF segments = <<>> THEN Replace(Strip(text))
    ELSE Replace(Strip(Concat(segments, text)))

_get_text(segments, text) ==
    IF segments = <<>> THEN <<>>
    ELSE Replace(Strip(Concat(segments, text)))

----------------------------------------------------------------------------
(* Inputs of one run *)

\* keys a config.json may hold
ConfigKeys == {"project_id", "location", "processor_id", "file_path",
               "output_csv_path", "credentials_path"}

\* config.json is absent, is not JSON, or is an object with some of the keys
ConfigFiles ==
    {[status |-> "not_found", keys |-> {}], [status |-> "not_json", keys |-> {}]}
    \cup {[status |-> "json", keys |-> k] : k \in SUBSET ConfigKeys}

NameJaneDoe == <<"N", "a", "m", "e", ":", " ", "J", "a", "n", "e", " ", "D", "o", "e">>

DocTexts == {<<>>, NameJaneDoe}

\* form fields the service may return: name anchor, value anchor, confidences
FieldPool ==
    { [name |-> <<<<0, 4>>>>, value |-> <<<<6, 14>>>>,
       name_confidence |-> 98, value_confidence |-> 87],
      [name |-> <<>>, value |-> <<<<11, 14>>, <<6, 10>>>>,
       name_confidence |-> 0, value_confidence |-> 40],
      [name |-> <<<<0, 4>>>>, value |-> <<>>,
       name_confidence |-> 55, value_confidence |-> 0],
      [name |-> <<>>, value |-> <<>>,
       name_confidence |-> 100, value_confidence |-> 100] }

Confidences == {0, 100}

\* sequences of exactly k pages holding at most budget fields in all
RECURSIVE PageSeqs(_, _)
PageSeqs(k, budget) ==
    IF k = 0 THEN {<<>>}
    ELSE UNION { {<<[form_fields |-> f]>> \o rest :
                    rest \in PageSeqs(k - 1, budget - Len(f))} :
                 f \in SeqsUpTo(FieldPool, budget) }

\* documents of at most MaxPages pages holding at most MaxFields fields in all
Documents ==
    {[text |-> t, pages |-> p] :
        t \in DocTexts, p \in UNION {PageSeqs(k, MaxFields) : k \in 0..MaxPages}}

----------------------------------------------------------------------------
(* load_config *)

\* variant: output_csv_path is not validated
required_keys_short == ConfigKeys \ {"output_csv_path"}

required_keys == {"project_id", "location", "processor_id", "file_path",
                  "output_csv_path", "credentials_path"}

LoadConfig ==
    /\ pc = "load_config"
    /\ IF config_file.status = "not_found"
       THEN pc' = "exit" /\ fault' = "config_not_found" /\ UNCHANGED config
       ELSE IF config_file.status = "not_json"
       THEN pc' = "exit" /\ fault' = "config_not_json" /\ UNCHANGED config
       ELSE IF \E key \in required_keys : key \notin config_file.keys
       THEN pc' = "exit" /\ fault' = "config_missing_key" /\ UNCHANGED config
       ELSE pc' = "process_document" /\ config' = config_file.keys /\ UNCHANGED fault
    /\ UNCHANGED <<config_file, document, remote_calls, csv_data, page_num,
                   field_idx, records, csv_twin, csv_file>>
    /\ UNCHANGED resolveVars

----------------------------------------------------------------------------
(* process_document *)

\* variant: a failed call is tried again
RemoteFailureRetry == "process_document"

\* where the run goes when the try block of process_document raises
RemoteFailurePc == "exit"

\* keys __main__ reads to build the call of process_document
ProcessArgs == {"project_id", "location", "processor_id", "file_path", "credentials_path"}

ProcessOutcomes == {"no_credentials", "client_error", "input_not_found",
                    "remote_error", "ok"}

ProcessDocument ==
    /\ pc = "process_document"
    /\ IF ~(ProcessArgs \subseteq config)
       THEN /\ pc' = "exit"
            /\ fault' = "key_error"
            /\ UNCHANGED <<document, remote_calls>>
       ELSE \E outcome \in ProcessOutcomes :
            CASE outcome = "no_credentials" ->
                   /\ pc' = "exit"
                   /\ fault' = "no_credentials"
                   /\ UNCHANGED <<document, remote_calls>>
              [] outcome = "client_error" ->
                   /\ pc' = RemoteFailurePc
                   /\ fault' = "remote_error"
                   /\ UNCHANGED <<document, remote_calls>>
              [] outcome = "input_not_found" ->
                   /\ pc' = "exit"
                   /\ fault' = "input_not_found"
                   /\ UNCHANGED <<document, remote_calls>>
              [] outcome = "remote_error" ->
                   /\ remote_calls' = remote_calls + 1
                   /\ pc' = RemoteFailurePc
                   /\ fault' = "remote_error"
                   /\ UNCHANGED document
              [] outcome = "ok" ->
                   /\ remote_calls' = remote_calls + 1
                   /\ \E d \in Documents : document' = d
                   /\ pc' = "main_check"
                   /\ UNCHANGED fault
    /\ UNCHANGED <<config_file, config, csv_data, page_num, field_idx, records,
                   csv_twin, csv_file>>
    /\ UNCHANGED resolveVars

\* bool(document) of a proto-plus message: some field of it is set
Truthy(doc) == doc.text # <<>> \/ doc.pages # <<>>

\* if processed_document: extract_form_data_to_csv(..., config["output_csv_path"])
MainCheck ==
    /\ pc = "main_check"
    /\ IF ~Truthy(document)
       THEN pc' = "exit" /\ fault' = "empty_document"
       ELSE IF "output_csv_path" \notin config
       THEN pc' = "exit" /\ fault' = "key_error"
       ELSE pc' = "extract_begin" /\ UNCHANGED fault
    /\ UNCHANGED <<config_file, config, document, remote_calls, csv_data,
                   page_num, field_idx, records, csv_twin, csv_file>>
    /\ UNCHANGED resolveVars

----------------------------------------------------------------------------
(* extract_form_data_to_csv *)

header == <<"Page Number", "Field Name", "Field Value">>

\* variant: a value of confidence below 0.50 is blanked
FieldRowByConfidence(page, field, full_text) ==
    <<page + 1,
      _get_text(field.name, full_text),
      IF field.value_confidence < 50 THEN <<>> ELSE _get_text(field.value, full_text)>>

\* the row built for one field: [page_num + 1, field_name, field_value]
FieldRow(page, field, full_text) ==
    <<page + 1, _get_text(field.name, full_text), _get_text(field.value, full_text)>>

\* variant: the row is inserted right after the header
AppendRowFront(table, row) == <<table[1], row>> \o Tail(table)

\* csv_data.append(row)
AppendRow(table, row) == Append(table, row)

\* variant: a page without form fields ends the page loop
AfterEmptyPageBreak(page, doc) == Len(doc.pages)

\* the page index the loop goes on with after a page without form fields
AfterEmptyPage(page, doc) == page + 1

ExtractBegin ==
    /\ pc = "extract_begin"
    /\ csv_data' = <<header>>
    /\ csv_twin' = <<header>>
    /\ page_num' = 0
    /\ pc' = "page_loop"
    /\ UNCHANGED <<config_file, config, document, remote_calls, fault, field_idx,
                   records, csv_file>>
    /\ UNCHANGED resolveVars

\* one iteration of the page loop up to the start of its field loop
NextPage ==
    /\ pc = "page_loop"
    /\ page_num < Len(document.pages)
    /\ IF document.pages[page_num + 1].form_fields = <<>>
       THEN /\ page_num' = AfterEmptyPage(page_num, document)
            /\ UNCHANGED <<pc, field_idx>>
       ELSE /\ pc' = "field_loop"
            /\ field_idx' = 0
            /\ UNCHANGED page_num
    /\ UNCHANGED <<config_file, config, document, remote_calls, fault, csv_data,
                   records, csv_twin, csv_file>>
    /\ UNCHANGED resolveVars

\* one iteration of the field loop; the twin table gets the row the same code
\* builds for the same field carrying any other pair of confidences
ExtractField ==
    /\ pc = "field_loop"
    /\ LET fields == document.pages[page_num + 1].form_fields
           field == fields[field_idx + 1]
           row == FieldRow(page_num, field, document.text)
       IN  /\ csv_data' = AppendRow(csv_data, row)
           /\ records' = Append(records, [page_number |-> row[1],
                                          field_name |-> row[2],
                                          field_value |-> row[3]])
           /\ \E cn \in Confidences, cv \in Confidences :
                csv_twin' = AppendRow(csv_twin,
                    FieldRow(page_num,
                             [field EXCEPT !.name_confidence = cn,
                                           !.value_confidence = cv],
                             document.text))
           /\ IF field_idx + 1 < Len(fields)
              THEN field_idx' = field_idx + 1 /\ UNCHANGED <<pc, page_num>>
              ELSE pc' = "page_loop" /\ page_num' = page_num + 1 /\ UNCHANGED field_idx
    /\ UNCHANGED <<config_file, config, document, remote_calls, fault, csv_file>>
    /\ UNCHANGED resolveVars

\* the page loop is exhausted: open the output file and write the rows
WriteCsv ==
    /\ pc = "page_loop"
    /\ page_num >= Len(document.pages)
    /\ \E writable \in BOOLEAN :
         IF writable
         THEN csv_file' = csv_data /\ pc' = "done" /\ UNCHANGED fault
         ELSE pc' = "exit" /\ fault' = "csv_io_error" /\ UNCHANGED csv_file
    /\ UNCHANGED <<config_file, config, document, remote_calls, csv_data, page_num,
                   field_idx, records, csv_twin>>
    /\ UNCHANGED resolveVars

----------------------------------------------------------------------------
(* Specification of one run *)

ResolveIdle ==
    /\ r_pc = "idle"
    /\ r_text = <<>>
    /\ r_anchor = <<>>
    /\ r_response = <<>>
    /\ r_result = <<>>

PipeStart ==
    /\ pc = "load_config"
    /\ config = NoConfig
    /\ document = NoDocument
    /\ remote_calls = 0
    /\ fault = "none"
    /\ csv_data = NoTable
    /\ page_num = 0
    /\ field_idx = 0
    /\ records = <<>>
    /\ csv_twin = NoTable
    /\ csv_file = NoTable

Init ==
    /\ config_file \in ConfigFiles
    /\ PipeStart
    /\ ResolveIdle

Next ==
    \/ LoadConfig
    \/ ProcessDocument
    \/ MainCheck
    \/ ExtractBegin
    \/ NextPage
    \/ ExtractField
    \/ WriteCsv

Spec == Init /\ [][Next]_vars

----------------------------------------------------------------------------
(* Specification of one call of _get_text *)

HelloWorld == <<"H", "e", "l", "l", "o", "\n", "W", "o", "r", "l", "d">>

ShortTexts == { <<"\n", "a", "\n">>, <<" ", "x", "\t">> }

\* segments with indices around the bounds of a short text
GridSegments == {<<s, e>> : s \in -1..MaxIdx, e \in -1..MaxIdx}

\* the segments of the anchors [(0,5),(6,11)], [(5,8),(0,3)] and [(0,3),(5,8)]
ExampleSegments == {<<0, 5>>, <<6, 11>>, <<5, 8>>, <<0, 3>>}

ResolveInputs ==
    {<<t, a>> : t \in ShortTexts, a \in SeqsUpTo(GridSegments, MaxSegs)}
    \cup {<<HelloWorld, a>> : a \in SeqsUpTo(ExampleSegments, MaxSegs)}

ResolveInit ==
    /\ config_file = [status |-> "not_found", keys |-> {}]
    /\ PipeStart
    /\ r_pc = "call"
    /\ \E in \in ResolveInputs : r_text = in[1] /\ r_anchor = in[2]
    /\ r_response = <<>>
    /\ r_result = <<>>

\* the whole call: _get_text has no raise and no operation that can raise on
\* integer indices, so every call returns a string
Resolve ==
    /\ r_pc = "call"
    /\ r_response' = (IF r_anchor = <<>> THEN <<>> ELSE Concat(r_anchor, r_text))
    /\ r_result' = _get_text(r_anchor, r_text)
    /\ r_pc' = "returned"
    /\ UNCHANGED <<r_text, r_anchor>>
    /\ UNCHANGED pipeVars

ResolveNext == Resolve

SpecResolve == ResolveInit /\ [][ResolveNext]_vars

----------------------------------------------------------------------------
(* Properties of _get_text, checked under SpecResolve *)

InBounds(seg, text) ==
    /\ 0 <= seg[1] /\ seg[1] <= Len(text)
    /\ 0 <= seg[2] /\ seg[2] <= Len(text)

WellFormed(seg, text) == InBounds(seg, text) /\ seg[1] <= seg[2]

\* the substrings of the segments, first-listed segment first
RECURSIVE AnchorOrderText(_, _)
AnchorOrderText(segments, text) ==
    IF segments = <<>> THEN <<>>
    ELSE SubSeq(text, Head(segments)[1] + 1, Head(segments)[2])
         \o AnchorOrderText(Tail(segments), text)

\* C1: for an anchor with one or more segments, all indices within bounds,
\* _get_text returns the post-processed concatenation of the segments'
\* substrings in the order the anchor lists them; the text of the first-listed
\* segment opens the concatenation.
C1_AnchorOrder ==
    (/\ r_pc = "returned"
     /\ r_anchor # <<>>
     /\ \A i \in 1..Len(r_anchor) : InBounds(r_anchor[i], r_text))
    => /\ r_response = AnchorOrderText(r_anchor, r_text)
       /\ r_result = Replace(Strip(AnchorOrderText(r_anchor, r_text)))
       /\ LET first == SubSeq(r_text, r_anchor[1][1] + 1, r_anchor[1][2])
          IN  SubSeq(r_response, 1, Len(first)) = first

C1_Witness ==
    /\ r_pc = "returned"
    /\ r_text = HelloWorld
    /\ r_anchor = <<<<5, 8>>, <<0, 3>>>>
    /\ r_result = <<"W", "o", "H", "e", "l">>

\* C2: an anchor holding a segment with start > end or an index outside
\* [0, len(full_text)] never makes _get_text return a string.
C2_MalformedNeverReturns ==
    r_pc = "returned" => \A i \in 1..Len(r_anchor) : WellFormed(r_anchor[i], r_text)

\* C3 as stated: the anchor [(0,5),(6,11)] over "Hello\nWorld" resolves to
\* "Hello World".
C3_HelloSpaceWorld ==
    (r_pc = "returned" /\ r_text = HelloWorld /\ r_anchor = <<<<0, 5>>, <<6, 11>>>>)
    => r_result = <<"H", "e", "l", "l", "o", " ", "W", "o", "r", "l", "d">>

\* C3 amended: the anchor [(0,5),(6,11)] over "Hello\nWorld" resolves to
\* "HelloWorld": the segments' texts are joined with nothing between them.
C3_HelloWorldJoined ==
    (r_pc = "returned" /\ r_text = HelloWorld /\ r_anchor = <<<<0, 5>>, <<6, 11>>>>)
    => r_result = <<"H", "e", "l", "l", "o", "W", "o", "r", "l", "d">>

C3_Witness ==
    /\ r_pc = "returned"
    /\ r_text = HelloWorld
    /\ r_anchor = <<<<0, 5>>, <<6, 11>>>>
    /\ Len(r_result) = 10

PyWhitespace == {" ", "\t", "\n", "\r", "\f"}

\* C10: the returned string is the concatenation with its leading and trailing
\* whitespace cut off and every remaining newline turned into one space, all
\* other characters unchanged; so it holds no newline, neither starts nor ends
\* with whitespace, and k newlines in a row give k spaces.
C10_TrimThenNewlinesToSpaces ==
    (r_pc = "returned" /\ r_anchor # <<>>)
    => /\ \E lo \in 1..(Len(r_response) + 1) : \E hi \in 0..Len(r_response) :
            /\ \A i \in 1..Len(r_response) :
                 (i < lo \/ i > hi) => r_response[i] \in PyWhitespace
            /\ lo <= hi + 1
            /\ lo <= hi => (r_response[lo] \notin PyWhitespace
                            /\ r_response[hi] \notin PyWhitespace)
            /\ Len(r_result) = hi - lo + 1
            /\ \A k \in 1..Len(r_result) :
                 r_result[k] = (IF r_response[lo + k - 1] = "\n"
                                THEN " " ELSE r_response[lo + k - 1])
       /\ \A k \in 1..Len(r_result) : r_result[k] # "\n"
       /\ r_result # <<>> => (r_result[1] \notin PyWhitespace
                              /\ r_result[Len(r_result)] \notin PyWhitespace)

C10_Witness ==
    /\ r_pc = "returned"
    /\ r_response = <<"\n", "a", "\n", "\n", "a">>
    /\ r_result = <<"a", " ", " ", "a">>

----------------------------------------------------------------------------
(* Properties of one run, checked under Spec *)

\* (page, field) positions of the document, 1-based
Positions(doc) ==
    UNION {{<<p, f>> : f \in 1..Len(doc.pages[p].form_fields)} : p \in 1..Len(doc.pages)}

Precedes(a, b) == a[1] < b[1] \/ (a[1] = b[1] /\ a[2] <= b[2])

\* rank of a position in page order, then field order
Rank(doc, pos) == Cardinality({q \in Positions(doc) : Precedes(q, pos)})

FieldAt(doc, pos) == doc.pages[pos[1]].form_fields[pos[2]]

\* the page loop has run to its end
LoopDone ==
    \/ pc = "done"
    \/ pc = "exit" /\ fault = "csv_io_error"
    \/ pc = "page_loop" /\ page_num >= Len(document.pages)

\* C4: when the loops end the table holds, after its header, exactly one row per
\* form field, in page order then field order, with page number = page index + 1;
\* pages without fields add nothing and do not stop later pages.
C4_OneRecordPerField ==
    LoopDone =>
        /\ Len(csv_data) = 1 + Cardinality(Positions(document))
        /\ \A pos \in Positions(document) :
             csv_data[1 + Rank(document, pos)] =
                <<pos[1],
                  _get_text(FieldAt(document, pos).name, document.text),
                  _get_text(FieldAt(document, pos).value, document.text)>>

C4_Witness ==
    /\ pc = "done"
    /\ Len(document.pages) = 2
    /\ document.pages[1].form_fields = <<>>
    /\ Len(document.pages[2].form_fields) = 2
    /\ document.pages[2].form_fields[1] = document.pages[2].form_fields[2]
    /\ Len(csv_data) = 3
    /\ csv_data[2][1] = 2
    /\ csv_data[3] = csv_data[2]

\* C5: a field whose name anchor or value anchor has no segments still gets its
\* row, with the empty string in that position, and the run is not aborted at it.
C5_EmptyAnchorEmptyString ==
    /\ LoopDone =>
         \A pos \in Positions(document) :
            /\ Len(csv_data) >= 1 + Rank(document, pos)
            /\ FieldAt(document, pos).name = <<>>
                 => csv_data[1 + Rank(document, pos)][2] = <<>>
            /\ FieldAt(document, pos).value = <<>>
                 => csv_data[1 + Rank(document, pos)][3] = <<>>
    /\ (pc = "exit" /\ csv_data # NoTable) => fault = "csv_io_error"

C5_Witness ==
    /\ pc = "done"
    /\ document.text = NameJaneDoe
    /\ Len(document.pages) = 1
    /\ Len(document.pages[1].form_fields) = 2
    /\ document.pages[1].form_fields[1].name = <<>>
    /\ document.pages[1].form_fields[2].value = <<>>
    /\ csv_file[2] = <<1, <<>>, <<"D", "o", "e", "J", "a", "n", "e">>>>
    /\ csv_file[3] = <<1, <<"N", "a", "m", "e">>, <<>>>>

\* C6: the table handed to the CSV writer is the header row
\* ["Page Number", "Field Name", "Field Value"] followed by one row per record in
\* the order the records were produced; without any field it is the header alone.
C6_HeaderThenRecordsInOrder ==
    /\ pc = "done" => csv_file # NoTable
    /\ csv_file # NoTable =>
         /\ csv_file[1] = <<"Page Number", "Field Name", "Field Value">>
         /\ Len(csv_file) = 1 + Len(records)
         /\ \A i \in 1..Len(records) :
              csv_file[i + 1] = <<records[i].page_number, records[i].field_name,
                                  records[i].field_value>>
         /\ Positions(document) = {} => Len(csv_file) = 1

C6_Witness ==
    /\ pc = "done"
    /\ Len(records) = 2
    /\ records[1] # records[2]
    /\ csv_file[2][3] = <<"J", "a", "n", "e", " ", "D", "o", "e">>
    /\ csv_file[3][3] = <<>>

\* C7: the table does not depend on the confidences: the table built from a
\* document that differs from this one only in its fields' confidences is the
\* same table, row for row.
C7_ConfidenceBlind == csv_twin = csv_data

C7_Witness ==
    /\ pc = "done"
    /\ \E pos \in Positions(document) :
         /\ FieldAt(document, pos).value_confidence < 50
         /\ csv_file[1 + Rank(document, pos)][3] # <<>>
    /\ csv_twin = csv_file

\* C8: once a configuration lacking a required key is loaded, no document is
\* fetched and no CSV is built or written: the run only fails.
C8_MissingKeyStopsRun ==
    (config_file.status = "json" /\ config_file.keys # ConfigKeys)
    => /\ pc \in {"load_config", "exit"}
       /\ remote_calls = 0
       /\ document = NoDocument
       /\ csv_data = NoTable
       /\ csv_file = NoTable

C8_Witness ==
    /\ pc = "exit"
    /\ fault = "config_missing_key"
    /\ config_file.keys = ConfigKeys \ {"output_csv_path"}
    /\ remote_calls = 0

\* C9: the remote call is issued at most once, and a run whose call failed has
\* ended in failure with no record extracted and no CSV written.
C9_RemoteFailureFatal ==
    /\ remote_calls <= 1
    /\ fault = "remote_error" =>
         /\ pc = "exit"
         /\ records = <<>>
         /\ csv_data = NoTable
         /\ csv_file = NoTable

C9_Witness ==
    /\ pc = "exit"
    /\ fault = "remote_error"
    /\ remote_calls = 1

====
